---- MODULE Spec2Model ----
(***************************************************************************)
(* Model of backend/modules/llm_pipeline.py of ReadingBooks:               *)
(* extract_entities, extract_relationships and process_text_with_llm,      *)
(* with the completion service (llm.invoke) and the text splitter as the   *)
(* environment.  Completion texts are character strings; json.loads,       *)
(* str.strip and the regular expression are computed on the characters.    *)
(***************************************************************************)
EXTENDS Integers, Sequences, FiniteSets, TLC

(***************************************************************************)
(* Python values.  Every value is a record of the same three fields so     *)
(* that values of different Python types can be compared:                  *)
(*   k = "str"   s = the characters                                        *)
(*   k = "num"   s = the digits as written                                 *)
(*   k = "lit"   s = "null" | "true" | "false"  (None, True, False)        *)
(*   k = "list"  items = the elements                                      *)
(*   k = "dict"  items = the members, each a "pair" (s = key, items = <<v>>)*)
(***************************************************************************)
JStr(s) == [k |-> "str", s |-> s, items |-> <<>>]

JNum(s) == [k |-> "num", s |-> s, items |-> <<>>]

JLit(s) == [k |-> "lit", s |-> s, items |-> <<>>]

JList(items) == [k |-> "list", s |-> "", items |-> items]

JDict(items) == [k |-> "dict", s |-> "", items |-> items]

JPair(key, v) == [k |-> "pair", s |-> key, items |-> <<v>>]

Ch(s, i) == SubSeq(s, i, i)

Whitespace == {" ", "\t", "\n", "\r"}

Digits == {"0", "1", "2", "3", "4", "5", "6", "7", "8", "9"}

\* The outcome of a failed json.loads: json.JSONDecodeError.
ParseFail == [ok |-> FALSE, v |-> JLit("null"), p |-> 0]

ParseOk(v, p) == [ok |-> TRUE, v |-> v, p |-> p]

RECURSIVE SkipWs(_, _)
SkipWs(s, i) ==
    IF i <= Len(s) /\ Ch(s, i) \in Whitespace THEN SkipWs(s, i + 1) ELSE i

\* A JSON string body from position i (after the opening quote).  Of the
\* escapes, \" \\ \/ \n \t are decoded; \b \f \r \uXXXX are not modelled and
\* do not occur in the completions enumerated below.
RECURSIVE ScanString(_, _, _)
ScanString(s, i, acc) ==
    IF i > Len(s) THEN ParseFail
    ELSE LET c == Ch(s, i) IN
         IF c = "\"" THEN ParseOk(JStr(acc), i + 1)
         ELSE IF c = "\\" THEN
              IF i + 1 > Len(s) THEN ParseFail
              ELSE LET e == Ch(s, i + 1) IN
                   IF e \in {"\"", "\\", "/"} THEN ScanString(s, i + 2, acc \o e)
                   ELSE IF e = "n" THEN ScanString(s, i + 2, acc \o "\n")
                   ELSE IF e = "t" THEN ScanString(s, i + 2, acc \o "\t")
                   ELSE ParseFail
         ELSE IF c \in {"\n", "\t", "\r"} THEN ParseFail
         ELSE ScanString(s, i + 1, acc \o c)

RECURSIVE ScanDigits(_, _)
ScanDigits(s, i) ==
    IF i <= Len(s) /\ Ch(s, i) \in Digits THEN ScanDigits(s, i + 1) ELSE i

\* A JSON number from position i: -?(0|[1-9][0-9]*)(\.[0-9]+)? .  Exponents
\* are not modelled.
ScanNumber(s, i) ==
    LET j == IF Ch(s, i) = "-" THEN i + 1 ELSE i
        e == IF j <= Len(s) /\ Ch(s, j) = "0" THEN j + 1 ELSE ScanDigits(s, j)
        f == IF e + 1 <= Len(s) /\ Ch(s, e) = "." /\ Ch(s, e + 1) \in Digits
             THEN ScanDigits(s, e + 1) ELSE e
    IN IF e = j THEN ParseFail ELSE ParseOk(JNum(SubSeq(s, i, f - 1)), f)

\* dict[key] = v: a repeated key keeps its first position and takes the
\* last value.
RECURSIVE DictPut(_, _, _)
DictPut(items, key, v) ==
    IF items = <<>> THEN <<JPair(key, v)>>
    ELSE IF Head(items).s = key THEN <<JPair(key, v)>> \o Tail(items)
    ELSE <<Head(items)>> \o DictPut(Tail(items), key, v)

RECURSIVE ParseValue(_, _)
RECURSIVE ParseElems(_, _, _)
RECURSIVE ParseMembers(_, _, _)
\* One JSON value starting at position i (whitespace already skipped).
ParseValue(s, i) ==
    IF i > Len(s) THEN ParseFail
    ELSE LET c == Ch(s, i) IN
         IF c = "\"" THEN ScanString(s, i + 1, "")
         ELSE IF c = "[" THEN
              LET j == SkipWs(s, i + 1) IN
              IF j <= Len(s) /\ Ch(s, j) = "]" THEN ParseOk(JList(<<>>), j + 1)
              ELSE ParseElems(s, j, <<>>)
         ELSE IF c = "{" THEN
              LET j == SkipWs(s, i + 1) IN
              IF j <= Len(s) /\ Ch(s, j) = "}" THEN ParseOk(JDict(<<>>), j + 1)
              ELSE ParseMembers(s, j, <<>>)
         ELSE IF c \in Digits \cup {"-"} THEN ScanNumber(s, i)
         ELSE IF i + 3 <= Len(s) /\ SubSeq(s, i, i + 3) \in {"null", "true"}
              THEN ParseOk(JLit(SubSeq(s, i, i + 3)), i + 4)
         ELSE IF i + 4 <= Len(s) /\ SubSeq(s, i, i + 4) = "false"
              THEN ParseOk(JLit("false"), i + 5)
         ELSE ParseFail

ParseElems(s, i, acc) ==
    LET r == ParseValue(s, i) IN
    IF ~r.ok THEN ParseFail
    ELSE LET j == SkipWs(s, r.p) IN
         IF j > Len(s) THEN ParseFail
         ELSE IF Ch(s, j) = "," THEN ParseElems(s, SkipWs(s, j + 1), Append(acc, r.v))
         ELSE IF Ch(s, j) = "]" THEN ParseOk(JList(Append(acc, r.v)), j + 1)
         ELSE ParseFail

ParseMembers(s, i, acc) ==
    IF i > Len(s) \/ Ch(s, i) # "\"" THEN ParseFail
    ELSE LET key == ScanString(s, i + 1, "") IN
         IF ~key.ok THEN ParseFail
         ELSE LET j == SkipWs(s, key.p) IN
              IF j > Len(s) \/ Ch(s, j) # ":" THEN ParseFail
              ELSE LET r == ParseValue(s, SkipWs(s, j + 1)) IN
                   IF ~r.ok THEN ParseFail
                   ELSE LET m == SkipWs(s, r.p)
                            grown == DictPut(acc, key.v.s, r.v)
                        IN IF m > Len(s) THEN ParseFail
                           ELSE IF Ch(s, m) = "," THEN ParseMembers(s, SkipWs(s, m + 1), grown)
                           ELSE IF Ch(s, m) = "}" THEN ParseOk(JDict(grown), m + 1)
                           ELSE ParseFail

\* json.loads(s): one value, surrounded by optional whitespace and nothing
\* else; ok = FALSE is json.JSONDecodeError.
json_loads(s) ==
    LET r == ParseValue(s, SkipWs(s, 1)) IN
    IF r.ok /\ SkipWs(s, r.p) = Len(s) + 1 THEN r ELSE ParseFail

(***************************************************************************)
(* Python operations on values and strings used by the pipeline.           *)
(***************************************************************************)
\* bool(v)
Truthy(v) ==
    IF v.k = "str" THEN v.s # ""
    ELSE IF v.k = "num" THEN v.s \notin {"0", "-0"}
    ELSE IF v.k = "lit" THEN v.s = "true"
    ELSE v.items # <<>>

RECURSIVE DictHas(_, _)
\* key in d
DictHas(items, key) ==
    items # <<>> /\ (Head(items).s = key \/ DictHas(Tail(items), key))

RECURSIVE DictGet(_, _)
\* d[key], for a key that is in d
DictGet(items, key) ==
    IF Head(items).s = key THEN Head(items).items[1] ELSE DictGet(Tail(items), key)

RECURSIVE Chars(_)
Chars(s) == IF s = "" THEN <<>> ELSE <<JStr(Ch(s, 1))>> \o Chars(SubSeq(s, 2, Len(s)))

\* iter(v), as list.extend(v) consumes it: the elements of a list, the
\* characters of a str, the keys of a dict; TypeError for the rest.
Iterate(v) ==
    IF v.k = "list" THEN [exc |-> "none", items |-> v.items]
    ELSE IF v.k = "str" THEN [exc |-> "none", items |-> Chars(v.s)]
    ELSE IF v.k = "dict" THEN
         [exc |-> "none", items |-> [n \in 1..Len(v.items) |-> JStr(v.items[n].s)]]
    ELSE [exc |-> "TypeError", items |-> <<>>]

RECURSIVE PyRepr(_)
RECURSIVE ReprJoin(_, _)
\* repr(v).  A str is written in single quotes (no str modelled here holds one).
PyRepr(v) ==
    IF v.k = "str" THEN "'" \o v.s \o "'"
    ELSE IF v.k = "num" THEN v.s
    ELSE IF v.k = "lit" THEN (IF v.s = "null" THEN "None"
                              ELSE IF v.s = "true" THEN "True" ELSE "False")
    ELSE IF v.k = "list" THEN "[" \o ReprJoin(v.items, TRUE) \o "]"
    ELSE IF v.k = "dict" THEN "{" \o ReprJoin(v.items, TRUE) \o "}"
    ELSE "'" \o v.s \o "': " \o PyRepr(v.items[1])

ReprJoin(items, first) ==
    IF items = <<>> THEN ""
    ELSE (IF first THEN "" ELSE ", ") \o PyRepr(Head(items)) \o ReprJoin(Tail(items), FALSE)

\* str(v), also what an f-string writes for {v}
PyStr(v) == IF v.k = "str" THEN v.s ELSE PyRepr(v)

RECURSIVE LStrip(_)
LStrip(s) == IF s # "" /\ Ch(s, 1) \in Whitespace THEN LStrip(SubSeq(s, 2, Len(s))) ELSE s

RECURSIVE RStrip(_)
RStrip(s) ==
    IF s # "" /\ Ch(s, Len(s)) \in Whitespace THEN RStrip(SubSeq(s, 1, Len(s) - 1)) ELSE s

\* response.strip()
strip(s) == RStrip(LStrip(s))

startswith(s, c) == s # "" /\ Ch(s, 1) = c

endswith(s, c) == s # "" /\ Ch(s, Len(s)) = c

\* The least position >= i of character c in s, 0 when there is none.
FirstIndex(s, c, i) ==
    LET at == {j \in i..Len(s) : Ch(s, j) = c} IN
    IF at = {} THEN 0 ELSE CHOOSE j \in at : \A m \in at : j <= m

\* The greatest position <= i of character c in s, 0 when there is none.
LastIndex(s, c, i) ==
    LET at == {j \in 1..i : Ch(s, j) = c} IN
    IF at = {} THEN 0 ELSE CHOOSE j \in at : \A m \in at : j >= m

\* re.search(r'\[.*\]', s, re.DOTALL): the leftmost '[' and, the star being
\* greedy and the dot matching every character, the last ']' after it.
re_search(s) ==
    LET a == FirstIndex(s, "[", 1)
        b == LastIndex(s, "]", Len(s))
    IN IF a # 0 /\ b > a THEN [found |-> TRUE, group |-> SubSeq(s, a, b)]
       ELSE [found |-> FALSE, group |-> ""]

RECURSIVE FormatFields(_, _)
\* The replacement fields of a format string, as string.Formatter.parse
\* finds them from position i: {{ and }} are literal braces, and {name} or
\* {name:spec} is a field called name.
FormatFields(t, i) ==
    IF i > Len(t) THEN {}
    ELSE IF Ch(t, i) = "{" THEN
         IF i + 1 <= Len(t) /\ Ch(t, i + 1) = "{" THEN FormatFields(t, i + 2)
         ELSE LET close == FirstIndex(t, "}", i + 1)
                  colon == FirstIndex(t, ":", i + 1)
                  stop  == IF colon # 0 /\ colon < close THEN colon ELSE close
              IN IF close = 0 THEN {"<unclosed>"}
                 ELSE {SubSeq(t, i + 1, stop - 1)} \cup FormatFields(t, close + 1)
    ELSE LET open == FirstIndex(t, "{", i) IN
         IF open = 0 THEN {} ELSE FormatFields(t, open)

\* The exception of PromptTemplate.format(**kwargs): every replacement field
\* of the template must be one of the keyword arguments, else KeyError.
format_exc(template, kwargs) ==
    IF FormatFields(template, 1) \subseteq kwargs THEN "none" ELSE "KeyError"

\* lines 54-64: the template of the entity prompt.  Of its sentences, those
\* that hold no brace are left out here and in relationship_prompt.
entity_prompt ==
    "Example: [\"John Smith\", \"Mary Johnson\"] Text: {text} JSON:"

\* lines 219-229: the template of the relationship prompt
relationship_prompt ==
    "Find relationships between these people in the text: {entities} "
    \o "Example: [{\"source\": \"John Smith\", \"target\": \"Mary Johnson\", \"type\": \"spouse\"}] "
    \o "Text: {text} JSON:"

\* lines 76 and 133: entity_prompt.format(text=...)
entity_prompt_exc == format_exc(entity_prompt, {"text"})

\* lines 240 and 269: relationship_prompt.format(text=..., entities=...)
relationship_prompt_exc == format_exc(relationship_prompt, {"text", "entities"})

(***************************************************************************)
(* Configuration and the exceptions of the pipeline.                       *)
(***************************************************************************)
\* config/settings.py:16
LLM_BACKEND == "ollama"

\* len(text) > 4000 and chunk_size = 4000
CHUNK_SIZE == 4000

\* get_llm(): ValueError for a backend other than ollama.
get_llm_exc == IF LLM_BACKEND = "ollama" THEN "none" ELSE "ValueError"

\* The classes of exception raised in the pipeline; all derive from Exception.
\* RuntimeError stands for whatever llm.invoke raises.
Exceptions == {"JSONDecodeError", "TypeError", "KeyError", "AttributeError",
               "ValueError", "RuntimeError"}

\* "except json.JSONDecodeError" around the handling of one completion
inner_except(exc) == exc = "JSONDecodeError"

\* "except Exception as e" of extract_entities
entities_except(exc) == exc \in Exceptions

\* A handler for json.JSONDecodeError alone where lines 288-290 catch Exception.
relationships_except_narrow(exc) == exc = "JSONDecodeError"

\* "except Exception as e" of extract_relationships
relationships_except(exc) == exc \in Exceptions

Raised(exc) == [exc |-> exc, items |-> <<>>]

(***************************************************************************)
(* extract_entities: the handling of one completion.                       *)
(***************************************************************************)
RECURSIVE FirstList(_)
\* for key, value in parsed.items(): the first value that is a list, else []
FirstList(items) ==
    IF items = <<>> THEN JList(<<>>)
    ELSE IF Head(items).items[1].k = "list" THEN Head(items).items[1]
    ELSE FirstList(Tail(items))

\* lines 91-107: the value called names
entity_names(parsed) ==
    IF parsed.k = "dict" THEN
         IF DictHas(parsed.items, "names") THEN DictGet(parsed.items, "names")
         ELSE IF DictHas(parsed.items, "entities") THEN DictGet(parsed.items, "entities")
         ELSE FirstList(parsed.items)
    ELSE IF parsed.k = "list" THEN parsed
    ELSE JList(<<>>)

\* names[0]
first_of(names) ==
    IF names.k = "list" THEN [exc |-> "none", v |-> names.items[1]]
    ELSE IF names.k = "str" THEN [exc |-> "none", v |-> JStr(Ch(names.s, 1))]
    ELSE IF names.k = "dict" THEN [exc |-> "KeyError", v |-> names]
    ELSE [exc |-> "TypeError", v |-> names]

\* item.get("name", str(item))
get_name(item) ==
    IF DictHas(item.items, "name") THEN DictGet(item.items, "name")
    ELSE JStr(PyStr(item))

\* lines 110-117: what all_entities.extend(entities) appends, or the
\* exception raised on the way
entity_convert(names) ==
    IF Truthy(names) THEN
         LET first == first_of(names) IN
         IF first.exc # "none" THEN Raised(first.exc)
         ELSE IF first.v.k = "dict" THEN
              IF \E n \in 1..Len(names.items) : names.items[n].k # "dict"
              THEN Raised("AttributeError")
              ELSE [exc |-> "none",
                    items |-> [n \in 1..Len(names.items) |-> get_name(names.items[n])]]
         ELSE Iterate(names)
    ELSE Iterate(names)

\* lines 81-82, 146-147, 245-246, 275-276: a payload in double quotes is
\* decoded once
unquote(cleaned) ==
    IF startswith(cleaned, "\"") /\ endswith(cleaned, "\"")
    THEN json_loads(cleaned)
    ELSE ParseOk(JStr(cleaned), 0)

\* lines 85-88, 150-153, 249-252, 279-282
parse(cleaned) == IF cleaned.k = "str" THEN json_loads(cleaned.s) ELSE ParseOk(cleaned, 0)

\* lines 77-120, the chunked path: the items one chunk's completion adds to
\* all_entities, or the exception it raises
entity_chunk(response) ==
    LET u == unquote(strip(response)) IN
    IF ~u.ok THEN Raised("JSONDecodeError")
    ELSE LET p == parse(u.v) IN
         IF ~p.ok THEN Raised("JSONDecodeError")
         ELSE entity_convert(entity_names(p.v))

RECURSIVE DedupFrom(_, _)
DedupFrom(items, seen) ==
    IF items = <<>> THEN <<>>
    ELSE IF Head(items).k = "str" /\ Head(items).s \notin seen
         THEN <<Head(items)>> \o DedupFrom(Tail(items), seen \cup {Head(items).s})
    ELSE DedupFrom(Tail(items), seen)

\* The str items without the test "name not in seen".
unique_entities_keeps_duplicates(items) ==
    LET IsStrItem(v) == v.k = "str" IN SelectSeq(items, IsStrItem)

\* lines 122-130 and 157-165: the str items, each once, in order
unique_entities(items) == DedupFrom(items, {})

\* lines 139-143: the payload after the search for a bracketed part
extract_json(cleaned) ==
    LET m == re_search(cleaned) IN IF m.found THEN m.group ELSE cleaned

\* lines 134-180, the direct path: the value returned for the completion
entity_direct(response) ==
    LET u == unquote(extract_json(strip(response))) IN
    IF ~u.ok THEN JList(<<>>)
    ELSE LET p == parse(u.v) IN
         IF ~p.ok THEN JList(<<>>)
         ELSE IF p.v.k = "list" THEN JList(unique_entities(p.v.items))
         ELSE JList(<<>>)

(***************************************************************************)
(* extract_relationships: the handling of one completion.                  *)
(***************************************************************************)
\* lines 241-256: the items one chunk's completion adds to all_relationships
relationship_chunk(response) ==
    LET u == unquote(strip(response)) IN
    IF ~u.ok THEN Raised("JSONDecodeError")
    ELSE LET p == parse(u.v) IN
         IF ~p.ok THEN Raised("JSONDecodeError") ELSE Iterate(p.v)

\* rel['source'], rel['target'], rel['type']: the exception, if any
rel_fields_exc(rel) ==
    IF rel.k # "dict" THEN "TypeError"
    ELSE IF \A f \in {"source", "target", "type"} : DictHas(rel.items, f) THEN "none"
    ELSE "KeyError"

\* line 262: f"{rel['source']}-{rel['target']}-{rel['type']}"
rel_key(rel) ==
    PyStr(DictGet(rel.items, "source")) \o "-" \o PyStr(DictGet(rel.items, "target"))
        \o "-" \o PyStr(DictGet(rel.items, "type"))

RECURSIVE DedupRelFrom(_, _)
DedupRelFrom(items, seen) ==
    IF items = <<>> THEN <<>>
    ELSE IF rel_key(Head(items)) \notin seen
         THEN <<Head(items)>> \o DedupRelFrom(Tail(items), seen \cup {rel_key(Head(items))})
    ELSE DedupRelFrom(Tail(items), seen)

\* lines 258-266: the records with a key not seen before, or the exception
\* of the first item that is no record of the three fields
unique_relationships(items) ==
    LET bad == {n \in 1..Len(items) : rel_fields_exc(items[n]) # "none"} IN
    IF bad # {} THEN Raised(rel_fields_exc(items[CHOOSE n \in bad : \A m \in bad : n <= m]))
    ELSE [exc |-> "none", items |-> DedupRelFrom(items, {})]

\* lines 270-286, the direct path: the value returned for the completion
relationship_direct(response) ==
    LET u == unquote(strip(response)) IN
    IF ~u.ok THEN JList(<<>>)
    ELSE LET p == parse(u.v) IN IF ~p.ok THEN JList(<<>>) ELSE p.v

(***************************************************************************)
(* The environment: the documents and what the completion service answers. *)
(***************************************************************************)
\* The most chunks the splitter returns for a document.
MaxChunks == 3

\* len(text) of the documents
TextLens == {4000, 4001, 9000}

\* A completion of the entity prompt: the text returned, what kind of
\* answer it is, and the names it is meant to convey.
EntityCompletion(raw, shape, names) == [raw |-> raw, shape |-> shape, names |-> names]

EntityCompletions ==
    { EntityCompletion("[\"A\",\"B\",\"A\",\"C\"]", "names", <<"A", "B", "A", "C">>),
      EntityCompletion(" [\"B\", \"b\"]\n", "names", <<"B", "b">>),
      EntityCompletion("Here you go: [\"John Smith\"] enjoy!", "commentary", <<"John Smith">>),
      EntityCompletion("\"[\\\"John\\\"]\"", "quoted", <<"John">>),
      EntityCompletion("[{\"name\":\"John\"},{\"name\":\"Mary\"},{\"name\":\"John\"}]",
                       "objects", <<"John", "Mary", "John">>),
      EntityCompletion("{\"names\":[\"Z\"]}", "wrapped", <<"Z">>),
      EntityCompletion("not json at all", "unparseable", <<>>),
      EntityCompletion("{\"k\":1}", "wrong_shape", <<>>),
      EntityCompletion("5", "wrong_shape", <<>>),
      EntityCompletion("\"\\\"s\\\"\"", "wrong_shape", <<>>),
      EntityCompletion("[1,2]", "wrong_shape", <<>>),
      EntityCompletion("[{\"name\":\"A\"},\"B\"]", "wrong_shape", <<>>) }

\* llm.invoke raising instead of returning
InvokeRaises == [raw |-> "", shape |-> "raises", names |-> <<>>]

\* A completion of the relationship prompt, and the (source, target, type)
\* triples of its complete records.
RelationshipCompletion(raw, shape, triples) == [raw |-> raw, shape |-> shape, names |-> triples]

RelationshipCompletions ==
    { RelationshipCompletion("[{\"source\":\"A\",\"target\":\"B\",\"type\":\"spouse\"}]",
                             "records", <<<<"A", "B", "spouse">>>>),
      RelationshipCompletion("[{\"source\":\"a-b\",\"target\":\"c\",\"type\":\"t\"}]",
                             "records", <<<<"a-b", "c", "t">>>>),
      RelationshipCompletion("[{\"source\":\"a\",\"target\":\"b-c\",\"type\":\"t\"}]",
                             "records", <<<<"a", "b-c", "t">>>>),
      RelationshipCompletion("[{\"source\":\"A\",\"target\":\"B\",\"type\":\"spouse\"},{\"source\":\"A\"}]",
                             "incomplete", <<<<"A", "B", "spouse">>>>),
      RelationshipCompletion("not json at all", "unparseable", <<>>),
      RelationshipCompletion("{\"source\":\"A\"}", "wrong_shape", <<>>),
      RelationshipCompletion("5", "wrong_shape", <<>>),
      RelationshipCompletion("[1]", "wrong_shape", <<>>) }

(***************************************************************************)
(* The state of one call of process_text_with_llm(text).                   *)
(***************************************************************************)
VARIABLES
    pc,                 \* where the call is
    text_len,           \* len(text)
    n_chunks,           \* len(text_splitter.split_text(text))
    i,                  \* the chunk the loop is at, from 1
    all_entities,       \* extract_entities: all_entities
    entities,           \* the value extract_entities returned
    all_relationships,  \* extract_relationships: all_relationships
    relationships,      \* the value extract_relationships returned
    result,             \* the value process_text_with_llm returned
    entity_log,         \* the outcomes of llm.invoke in extract_entities
    relationship_log    \* the outcomes of llm.invoke in extract_relationships

\* The state of one run of progress_generator (app.py), which calls
\* process_text_with_llm.  A direct call of process_text_with_llm leaves it
\* as it starts.
VARIABLES
    gen,                \* where the generator is
    filename,           \* file.filename
    events,             \* the objects the generator has yielded, in order
    calls               \* file.read and extract_text_from_pdf, as called

upload_vars == <<gen, filename, events, calls>>

vars == <<pc, text_len, n_chunks, i, all_entities, entities, all_relationships,
          relationships, result, entity_log, relationship_log, gen, filename,
          events, calls>>

None == JLit("null")

Init ==
    /\ pc = "extract_entities"
    /\ text_len \in TextLens
    /\ n_chunks \in (IF text_len > CHUNK_SIZE THEN 0..MaxChunks ELSE {1})
    /\ i = 0
    /\ all_entities = <<>>
    /\ entities = None
    /\ all_relationships = <<>>
    /\ relationships = None
    /\ result = None
    /\ entity_log = <<>>
    /\ relationship_log = <<>>
    /\ gen = "no_generator"
    /\ filename = ""
    /\ events = <<>>
    /\ calls = <<>>

\* extract_entities returns v to process_text_with_llm (line 311).
EntitiesReturn(v) ==
    /\ entities' = v
    /\ pc' = "extract_relationships"

\* An exception in extract_entities: lines 182-184 return [], and an
\* exception they do not catch leaves process_text_with_llm.
EntitiesRaise(exc) ==
    IF entities_except(exc) THEN EntitiesReturn(JList(<<>>))
    ELSE pc' = "crashed" /\ UNCHANGED entities

\* lines 47-72 and 131: get_llm, the prompt, the choice of path, the split
EntitiesStart ==
    /\ pc = "extract_entities"
    /\ IF get_llm_exc # "none"
       THEN EntitiesRaise(get_llm_exc) /\ UNCHANGED <<i, all_entities>>
       ELSE /\ pc' = IF text_len > CHUNK_SIZE THEN "entities_loop" ELSE "entities_direct"
            /\ i' = 1
            /\ all_entities' = <<>>
            /\ UNCHANGED entities
    /\ UNCHANGED <<text_len, n_chunks, all_relationships, relationships, result,
                   entity_log, relationship_log>>
    /\ UNCHANGED upload_vars

\* lines 75-120: one turn of the loop over text_chunks
EntitiesChunk ==
    /\ pc = "entities_loop"
    /\ i <= n_chunks
    /\ IF entity_prompt_exc # "none"
       THEN /\ EntitiesRaise(entity_prompt_exc)
            /\ UNCHANGED <<i, all_entities, entity_log>>
       ELSE \E response \in EntityCompletions \cup {InvokeRaises} :
            /\ entity_log' = Append(entity_log, response)
            /\ IF response = InvokeRaises
               THEN EntitiesRaise("RuntimeError") /\ UNCHANGED <<i, all_entities>>
               ELSE LET r == entity_chunk(response.raw) IN
                    IF r.exc = "none" \/ inner_except(r.exc)
                    THEN /\ all_entities' = all_entities \o r.items
                         /\ i' = i + 1
                         /\ UNCHANGED <<pc, entities>>
                    ELSE EntitiesRaise(r.exc) /\ UNCHANGED <<i, all_entities>>
    /\ UNCHANGED <<text_len, n_chunks, all_relationships, relationships, result,
                   relationship_log>>
    /\ UNCHANGED upload_vars

\* lines 122-130: after the loop
EntitiesDedup ==
    /\ pc = "entities_loop"
    /\ i > n_chunks
    /\ EntitiesReturn(JList(unique_entities(all_entities)))
    /\ UNCHANGED <<text_len, n_chunks, i, all_entities, all_relationships, relationships,
                   result, entity_log, relationship_log>>
    /\ UNCHANGED upload_vars

\* lines 132-180: a text of at most 4000 characters, one completion
EntitiesDirect ==
    /\ pc = "entities_direct"
    /\ IF entity_prompt_exc # "none"
       THEN EntitiesRaise(entity_prompt_exc) /\ UNCHANGED entity_log
       ELSE \E response \in EntityCompletions \cup {InvokeRaises} :
            /\ entity_log' = Append(entity_log, response)
            /\ IF response = InvokeRaises
               THEN EntitiesRaise("RuntimeError")
               ELSE EntitiesReturn(entity_direct(response.raw))
    /\ UNCHANGED <<text_len, n_chunks, i, all_entities, all_relationships, relationships,
                   result, relationship_log>>
    /\ UNCHANGED upload_vars

\* extract_relationships returns v to process_text_with_llm (line 314).
RelationshipsReturn(v) ==
    /\ relationships' = v
    /\ pc' = "assemble"

\* An exception in extract_relationships: lines 288-290 return [].
RelationshipsRaise(exc) ==
    IF relationships_except(exc) THEN RelationshipsReturn(JList(<<>>))
    ELSE pc' = "crashed" /\ UNCHANGED relationships

\* A bare "return" where line 208 returns the empty list.
no_entities_result_none == JLit("null")

\* line 208: the value returned when there are no entities
no_entities_result == JList(<<>>)

\* lines 205-236 and 267: the short cut, get_llm, the prompt, the choice of
\* path, the split
RelationshipsStart ==
    /\ pc = "extract_relationships"
    /\ IF ~Truthy(entities)
       THEN RelationshipsReturn(no_entities_result) /\ UNCHANGED <<i, all_relationships>>
       ELSE IF get_llm_exc # "none"
       THEN RelationshipsRaise(get_llm_exc) /\ UNCHANGED <<i, all_relationships>>
       ELSE /\ pc' = IF text_len > CHUNK_SIZE THEN "relationships_loop"
                     ELSE "relationships_direct"
            /\ i' = 1
            /\ all_relationships' = <<>>
            /\ UNCHANGED relationships
    /\ UNCHANGED <<text_len, n_chunks, all_entities, entities, result, entity_log,
                   relationship_log>>
    /\ UNCHANGED upload_vars

\* lines 239-266: the loop over text_chunks, one turn at a time, and the
\* removal of duplicates after its last turn.  In a turn the prompt is
\* formatted first (line 240), then the completion is asked for.  As
\* relationship_prompt_exc is KeyError, a turn ends the call, and the loop is
\* entered only with a chunk to turn on (no chunks give no entities).
RelationshipsLoop ==
    /\ pc = "relationships_loop"
    /\ IF i <= n_chunks
       THEN IF relationship_prompt_exc # "none"
            THEN /\ RelationshipsRaise(relationship_prompt_exc)
                 /\ UNCHANGED <<i, all_relationships, relationship_log>>
            ELSE \E response \in RelationshipCompletions \cup {InvokeRaises} :
                 /\ relationship_log' = Append(relationship_log, response)
                 /\ IF response = InvokeRaises
                    THEN RelationshipsRaise("RuntimeError") /\ UNCHANGED <<i, all_relationships>>
                    ELSE LET r == relationship_chunk(response.raw) IN
                         IF r.exc = "none" \/ inner_except(r.exc)
                         THEN /\ all_relationships' = all_relationships \o r.items
                              /\ i' = i + 1
                              /\ UNCHANGED <<pc, relationships>>
                         ELSE RelationshipsRaise(r.exc) /\ UNCHANGED <<i, all_relationships>>
       ELSE /\ LET r == unique_relationships(all_relationships) IN
               IF r.exc = "none" THEN RelationshipsReturn(JList(r.items))
               ELSE RelationshipsRaise(r.exc)
            /\ UNCHANGED <<i, all_relationships, relationship_log>>
    /\ UNCHANGED <<text_len, n_chunks, all_entities, entities, result, entity_log>>
    /\ UNCHANGED upload_vars

\* lines 268-286: a text of at most 4000 characters, one completion
RelationshipsDirect ==
    /\ pc = "relationships_direct"
    /\ IF relationship_prompt_exc # "none"
       THEN /\ RelationshipsRaise(relationship_prompt_exc)
            /\ UNCHANGED relationship_log
       ELSE \E response \in RelationshipCompletions \cup {InvokeRaises} :
            /\ relationship_log' = Append(relationship_log, response)
            /\ IF response = InvokeRaises
               THEN RelationshipsRaise("RuntimeError")
               ELSE RelationshipsReturn(relationship_direct(response.raw))
    /\ UNCHANGED <<text_len, n_chunks, i, all_entities, entities, all_relationships,
                   result, entity_log>>
    /\ UNCHANGED upload_vars

\* The record returned with the number of entities as its text_length.
Assemble_counts_entities ==
    /\ pc = "assemble"
    /\ result' = [entities |-> entities, relationships |-> relationships,
                  text_length |-> Len(entities.items)]
    /\ pc' = "done"
    /\ UNCHANGED <<text_len, n_chunks, i, all_entities, entities, all_relationships,
                   relationships, entity_log, relationship_log>>
    /\ UNCHANGED upload_vars

\* lines 316-321: the record returned
Assemble ==
    /\ pc = "assemble"
    /\ result' = [entities |-> entities, relationships |-> relationships,
                  text_length |-> text_len]
    /\ pc' = "done"
    /\ UNCHANGED <<text_len, n_chunks, i, all_entities, entities, all_relationships,
                   relationships, entity_log, relationship_log>>
    /\ UNCHANGED upload_vars

Next ==
    \/ EntitiesStart
    \/ EntitiesChunk
    \/ EntitiesDedup
    \/ EntitiesDirect
    \/ RelationshipsStart
    \/ RelationshipsLoop
    \/ RelationshipsDirect
    \/ Assemble

Spec == Init /\ [][Next]_vars

(***************************************************************************)
(* The streaming upload endpoint: progress_generator of app.py.            *)
(***************************************************************************)
UpperCase == "ABCDEFGHIJKLMNOPQRSTUVWXYZ"

LowerCase == "abcdefghijklmnopqrstuvwxyz"

RECURSIVE lower(_)
\* str.lower(), over the ASCII letters
lower(s) ==
    IF s = "" THEN ""
    ELSE LET c == Ch(s, 1)
             k == FirstIndex(UpperCase, c, 1)
         IN (IF k = 0 THEN c ELSE Ch(LowerCase, k)) \o lower(SubSeq(s, 2, Len(s)))

\* os.path.splitext(p)[1]: the extension starts at the last dot, when that
\* dot comes after the last slash and after a character of the last
\* component that is not a dot; there is none otherwise.
splitext_ext(p) ==
    LET sepIndex == LastIndex(p, "/", Len(p))
        dotIndex == LastIndex(p, ".", Len(p))
    IN IF /\ dotIndex > sepIndex
          /\ \E j \in (sepIndex + 1)..(dotIndex - 1) : Ch(p, j) # "."
       THEN SubSeq(p, dotIndex, Len(p))
       ELSE ""

\* utils.py line 5: the default of allowed_extensions
allowed_extensions == {".pdf"}

\* utils.py lines 16-17
validate_file_type(name) == lower(splitext_ext(name)) \in allowed_extensions

\* settings.py line 21
TEXT_PREVIEW_LENGTH == 500

\* pdf_parser.py lines 43-45, of a text of n characters: how many of its
\* characters the preview starts with, and whether "..." follows them.
get_text_preview(n, max_length) ==
    IF n = 0 THEN [chars |-> 0, ellipsis |-> FALSE]
    ELSE [chars |-> IF n > max_length THEN max_length ELSE n, ellipsis |-> n > max_length]

\* The names of the uploaded files.
Filenames == {"My.Book.PDF", "notes.txt", "book.pdf.txt", ".pdf", "pdf", "x.pdf/y"}

\* len(text) of what extract_text_from_pdf returns when it returns a text: a
\* document of the pipeline, or the empty text of a PDF without a text layer.
PdfTextLens == TextLens \cup {0}

\* The object of a progress event (lines 86, 93, 103, 108, 115); n is the
\* number its message quotes, None when it quotes none.
ProgressEvent(progress, message, n) ==
    [keys |-> {"progress", "message"}, progress |-> progress, message |-> message,
     n |-> n, result |-> None]

\* The object of an error event (lines 82, 99)
ErrorEvent(message) ==
    [keys |-> {"error"}, progress |-> None, message |-> message, n |-> None,
     result |-> None]

\* The last event without its result.
ResultEvent_without_result(final_result) ==
    ProgressEvent(100, "Processing complete!", None)

\* The object of the last event (line 130)
ResultEvent(final_result) ==
    [keys |-> {"progress", "message", "result"}, progress |-> 100,
     message |-> "Processing complete!", n |-> None, result |-> final_result]

\* A call the generator made, and what kind of value came back.
Call(fn, returned) == [fn |-> fn, returned |-> returned]

InitUpload ==
    /\ gen = "validate"
    /\ filename \in Filenames
    /\ events = <<>>
    /\ calls = <<>>
    /\ pc = "not_called"
    /\ text_len = 0
    /\ n_chunks = 0
    /\ i = 0
    /\ all_entities = <<>>
    /\ entities = None
    /\ all_relationships = <<>>
    /\ relationships = None
    /\ result = None
    /\ entity_log = <<>>
    /\ relationship_log = <<>>

pipeline_vars == <<pc, text_len, n_chunks, i, all_entities, entities, all_relationships,
                   relationships, result, entity_log, relationship_log>>

\* lines 81-86: the validation, then the error event and the return, or the
\* first progress event
GenValidate ==
    /\ gen = "validate"
    /\ IF ~validate_file_type(filename)
       THEN /\ events' = Append(events, ErrorEvent("Only PDF files are supported"))
            /\ gen' = "finished"
       ELSE /\ events' = Append(events, ProgressEvent(10, "File uploaded successfully", None))
            /\ gen' = "read"
    /\ UNCHANGED <<filename, calls>>
    /\ UNCHANGED pipeline_vars

\* lines 87-93: file.read(), then the second progress event
GenRead ==
    /\ gen = "read"
    /\ calls' = Append(calls, Call("file.read", "bytes"))
    /\ events' = Append(events, ProgressEvent(20, "PDF file read", None))
    /\ gen' = "extract"
    /\ UNCHANGED filename
    /\ UNCHANGED pipeline_vars

\* The generator going on after the error event of line 99.
extraction_failed_goes_on == "announce"

\* line 100: the return after the error event
extraction_failed == "finished"

\* lines 94-103: extract_text_from_pdf, which returns None or a text; then
\* the error event and the return, or the third progress event
GenExtract ==
    /\ gen = "extract"
    /\ \/ /\ calls' = Append(calls, Call("extract_text_from_pdf", "None"))
          /\ events' = Append(events, ErrorEvent("Failed to extract text from PDF"))
          /\ gen' = extraction_failed
          /\ UNCHANGED <<text_len, n_chunks>>
       \/ \E n \in PdfTextLens :
          /\ calls' = Append(calls, Call("extract_text_from_pdf", "text"))
          /\ text_len' = n
          /\ n_chunks' \in (IF n > CHUNK_SIZE THEN 0..MaxChunks ELSE {1})
          /\ events' = Append(events, ProgressEvent(40, "Text extracted (n characters)", n))
          /\ gen' = "announce"
    /\ UNCHANGED <<filename, pc, i, all_entities, entities, all_relationships,
                   relationships, result, entity_log, relationship_log>>

\* lines 104-108: the fourth progress event
GenAnnounce ==
    /\ gen = "announce"
    /\ events' = Append(events, ProgressEvent(50, "Processing with AI...", None))
    /\ gen' = "call"
    /\ UNCHANGED <<filename, calls>>
    /\ UNCHANGED pipeline_vars

\* lines 109-111: the call of process_text_with_llm(text)
GenCall ==
    /\ gen = "call"
    /\ pc' = "extract_entities"
    /\ gen' = "processing"
    /\ UNCHANGED <<text_len, n_chunks, i, all_entities, entities, all_relationships,
                   relationships, result, entity_log, relationship_log>>
    /\ UNCHANGED <<filename, events, calls>>

\* lines 111-115: process_text_with_llm has returned (or an exception has
\* left it, and leaves the generator); len(llm_results["entities"]), then
\* the fifth progress event
GenCount ==
    /\ gen = "processing"
    /\ pc \in {"done", "crashed"}
    /\ LET entity_count == IF pc = "done" THEN Iterate(result.entities)
                           ELSE Raised("RuntimeError")
       IN IF entity_count.exc # "none"
          THEN gen' = "raised" /\ UNCHANGED events
          ELSE /\ events' = Append(events,
                       ProgressEvent(80, "AI processing complete. Found n people",
                                     Len(entity_count.items)))
               /\ gen' = "preview"
    /\ UNCHANGED <<filename, calls>>
    /\ UNCHANGED pipeline_vars

\* lines 116-130: the preview, final_result and the last event
GenComplete ==
    /\ gen = "preview"
    /\ LET preview == get_text_preview(text_len, TEXT_PREVIEW_LENGTH)
           final_result == [filename |-> filename,
                            preview |-> preview,
                            entities |-> result.entities,
                            relationships |-> result.relationships,
                            text_length |-> result.text_length]
       IN events' = Append(events, ResultEvent(final_result))
    /\ gen' = "finished"
    /\ UNCHANGED <<filename, calls>>
    /\ UNCHANGED pipeline_vars

NextUpload ==
    \/ GenValidate
    \/ GenRead
    \/ GenExtract
    \/ GenAnnounce
    \/ GenCall
    \/ GenCount
    \/ GenComplete
    \/ EntitiesStart
    \/ EntitiesChunk
    \/ EntitiesDedup
    \/ EntitiesDirect
    \/ RelationshipsStart
    \/ RelationshipsLoop
    \/ RelationshipsDirect
    \/ Assemble

SpecUpload == InitUpload /\ [][NextUpload]_vars

(***************************************************************************)
(* What the properties below speak of.                                     *)
(***************************************************************************)
Chunked == text_len > CHUNK_SIZE

EntitiesReturned ==
    pc \in {"extract_relationships", "relationships_loop", "relationships_direct",
            "assemble", "done"}

RelationshipsReturned == pc \in {"assemble", "done"}

\* The number of completions a pass asks for when nothing stops it.
Asked == IF Chunked THEN n_chunks ELSE 1

Shapes(log) == {log[n].shape : n \in 1..Len(log)}

RECURSIVE Conveyed(_)
\* The names (or triples) the completions of a log convey, in order.
Conveyed(log) == IF log = <<>> THEN <<>> ELSE Head(log).names \o Conveyed(Tail(log))

\* The first occurrence of every element of seq, in order.
FirstOccurrences(seq) ==
    LET keep == {n \in 1..Len(seq) : \A m \in 1..(n - 1) : seq[m] # seq[n]}
    IN [j \in 1..Cardinality(keep) |->
           seq[CHOOSE n \in keep : Cardinality({m \in keep : m <= n}) = j]]

\* A returned value as a sequence of strings: it is a list of str.
IsNameList(v) == v.k = "list" /\ \A n \in 1..Len(v.items) : v.items[n].k = "str"

NamesOf(v) == [n \in 1..Len(v.items) |-> v.items[n].s]

\* A returned value as a sequence of triples: it is a list of records, each
\* with the three fields.
IsRecordList(v) ==
    v.k = "list" /\ \A n \in 1..Len(v.items) : rel_fields_exc(v.items[n]) = "none"

TriplesOf(v) ==
    [n \in 1..Len(v.items) |->
        <<PyStr(DictGet(v.items[n].items, "source")),
          PyStr(DictGet(v.items[n].items, "target")),
          PyStr(DictGet(v.items[n].items, "type"))>>]

Range(seq) == {seq[n] : n \in 1..Len(seq)}

(***************************************************************************)
(* C1.  In extract_entities over a text split into N >= 2 chunks, if the   *)
(* completion call raises for exactly one chunk and the other chunks       *)
(* return arrays of names, all N chunks are asked for and the list         *)
(* returned is the names of the other chunks, each once, in order.         *)
(* Violated: the call of llm.invoke (line 76) is outside the inner try, so *)
(* the exception reaches line 182 and [] is returned at once.              *)
(***************************************************************************)
C1_OneChunkRaises ==
    (/\ EntitiesReturned
     /\ Chunked
     /\ n_chunks >= 2
     /\ Cardinality({n \in 1..Len(entity_log) : entity_log[n] = InvokeRaises}) = 1
     /\ Shapes(entity_log) \subseteq {"raises", "names"})
    => /\ Len(entity_log) = n_chunks
       /\ IsNameList(entities)
       /\ NamesOf(entities) = FirstOccurrences(Conveyed(entity_log))

(***************************************************************************)
(* C2.  Over a chunked text, in extract_entities and in                    *)
(* extract_relationships, a chunk whose completion is unparseable or is    *)
(* JSON of the wrong shape adds nothing and costs nothing: what is         *)
(* returned is what the other chunks convey.                               *)
(* Violated: only json.JSONDecodeError is skipped; an array mixing records *)
(* and strings raises AttributeError at line 112 and [] is returned, and   *)
(* extract_relationships asks for no completion at all.                    *)
(***************************************************************************)
C2_MalformedChunkSkipped ==
    /\ (/\ EntitiesReturned
        /\ Chunked
        /\ Shapes(entity_log) \subseteq {"names", "unparseable", "wrong_shape"})
       => /\ IsNameList(entities)
          /\ NamesOf(entities) = FirstOccurrences(Conveyed(entity_log))
    /\ (/\ RelationshipsReturned
        /\ Chunked
        /\ Truthy(entities)
        /\ Shapes(relationship_log) \subseteq {"records", "unparseable", "wrong_shape"})
       => /\ Len(relationship_log) = n_chunks
          /\ IsRecordList(relationships)
          /\ Range(TriplesOf(relationships)) = Range(Conveyed(relationship_log))

(***************************************************************************)
(* C3.  For every text length, extract_relationships called with entities  *)
(* asks for the completions and returns exactly the records of them that   *)
(* have source, target and type; records lacking a field are left out.     *)
(* Violated: relationship_prompt.format raises KeyError (the braces of the *)
(* template's example are replacement fields), so no completion is asked   *)
(* for and [] is returned.                                                 *)
(***************************************************************************)
C3_IncompleteRecordsDropped ==
    (/\ RelationshipsReturned
     /\ Truthy(entities)
     /\ Shapes(relationship_log) \subseteq {"records", "incomplete"})
    => /\ Len(relationship_log) = Asked
       /\ IsRecordList(relationships)
       /\ Range(TriplesOf(relationships)) = Range(Conveyed(relationship_log))

(***************************************************************************)
(* C4.  For every text length, extract_relationships called with entities  *)
(* asks for the completions and, when they are arrays of complete records, *)
(* returns the first occurrence of each distinct (source, target, type),   *)
(* in order: no triple twice, and records of different triples both kept.  *)
(* Violated: as C3, no completion is asked for and [] is returned.         *)
(***************************************************************************)
C4_FirstOccurrenceOfEachTriple ==
    (/\ RelationshipsReturned
     /\ Truthy(entities)
     /\ Shapes(relationship_log) \subseteq {"records"})
    => /\ Len(relationship_log) = Asked
       /\ IsRecordList(relationships)
       /\ TriplesOf(relationships) = FirstOccurrences(Conveyed(relationship_log))

(***************************************************************************)
(* C5.  For every text length, when every completion is a JSON array of    *)
(* name strings, extract_entities asks for every chunk and returns the     *)
(* names with no string twice (compared exactly, case included), in the    *)
(* order of their first appearance across the chunks.                      *)
(***************************************************************************)
C5_EntitiesUniqueInOrder ==
    (EntitiesReturned /\ Shapes(entity_log) \subseteq {"names"})
    => /\ Len(entity_log) = Asked
       /\ IsNameList(entities)
       /\ NamesOf(entities) = FirstOccurrences(Conveyed(entity_log))
       /\ \A m, n \in 1..Len(entities.items) :
              entities.items[m] = entities.items[n] => m = n

\* Two chunks answered with name arrays that share a name: A,B,A,C then B,b.
C5_Witness ==
    /\ pc = "done"
    /\ Chunked
    /\ Len(entity_log) = 2
    /\ Shapes(entity_log) = {"names"}
    /\ NamesOf(result.entities) = <<"A", "B", "C", "b">>

(***************************************************************************)
(* C6.  extract_relationships(text, []) returns the empty list and asks    *)
(* for no completion, for any text; so in process_text_with_llm, when the  *)
(* entity pass returns no entity, the relationship pass asks for no        *)
(* completion and relationships is empty.                                  *)
(***************************************************************************)
C6_NoEntitiesNoCalls ==
    /\ (RelationshipsReturned /\ ~Truthy(entities))
       => relationships = JList(<<>>) /\ relationship_log = <<>>
    /\ (pc = "done" /\ result.entities = JList(<<>>))
       => result.relationships = JList(<<>>) /\ relationship_log = <<>>

\* The entity pass asked for completions and found no one; the call is over.
C6_Witness ==
    /\ pc = "done"
    /\ entity_log # <<>>
    /\ result.entities = JList(<<>>)
    /\ result.relationships = JList(<<>>)

(***************************************************************************)
(* C7.  For every text length, when every completion is commentary around  *)
(* one JSON array of names, extract_entities returns that array's names.   *)
(* Violated: the search for the bracketed part (lines 139-143) is made in  *)
(* the direct path only; in the chunked path such a completion fails       *)
(* json.loads and is skipped.                                              *)
(***************************************************************************)
C7_CommentaryAroundArray ==
    (EntitiesReturned /\ entity_log # <<>> /\ Shapes(entity_log) \subseteq {"commentary"})
    => /\ Len(entity_log) = Asked
       /\ IsNameList(entities)
       /\ NamesOf(entities) = FirstOccurrences(Conveyed(entity_log))

(***************************************************************************)
(* C8.  For every text length, when every completion is a JSON-quoted      *)
(* string holding a JSON array of names, extract_entities unquotes it once *)
(* and returns the names of the array.                                     *)
(* Violated: in the direct path the search for the bracketed part comes    *)
(* first and cuts the payload out of its quotes with the backslashes left  *)
(* in, which json.loads rejects; [] is returned.                           *)
(***************************************************************************)
C8_DoubleEncodedArray ==
    (EntitiesReturned /\ entity_log # <<>> /\ Shapes(entity_log) \subseteq {"quoted"})
    => /\ Len(entity_log) = Asked
       /\ IsNameList(entities)
       /\ NamesOf(entities) = FirstOccurrences(Conveyed(entity_log))

(***************************************************************************)
(* C9.  For every text length, when every completion is a JSON array of    *)
(* objects with a name field, or an array of strings, extract_entities     *)
(* returns the name of each object, or the strings, each once, in order.   *)
(* Violated: the direct path keeps only the str elements of the array      *)
(* (lines 156-167; lines 169-175 are never reached), so objects are lost.  *)
(***************************************************************************)
C9_ObjectsWithName ==
    (/\ EntitiesReturned
     /\ "objects" \in Shapes(entity_log)
     /\ Shapes(entity_log) \subseteq {"objects", "names"})
    => /\ Len(entity_log) = Asked
       /\ IsNameList(entities)
       /\ NamesOf(entities) = FirstOccurrences(Conveyed(entity_log))

(***************************************************************************)
(* C10.  Whatever the completion service does, no exception leaves         *)
(* extract_entities, extract_relationships or process_text_with_llm: each  *)
(* of the first two returns a list, the call goes on until the record of   *)
(* entities, relationships and text_length is returned, after at most one  *)
(* completion per chunk and pass.                                          *)
(***************************************************************************)
C10_NoExceptionEscapes ==
    /\ pc # "crashed"
    /\ EntitiesReturned => entities.k = "list"
    /\ RelationshipsReturned => relationships.k = "list"
    /\ pc = "done" => /\ result.entities = entities
                      /\ result.relationships = relationships
                      /\ result.text_length = text_len
    /\ Len(entity_log) <= Asked /\ Len(relationship_log) <= Asked
    /\ pc \in {"entities_loop", "relationships_loop"} => i \in 1..(n_chunks + 1)

\* A call that ended although a completion was unparseable, one raised
\* AttributeError and the relationship prompt raised KeyError.
C10_Witness ==
    /\ pc = "done"
    /\ Truthy(result.entities)
    /\ "unparseable" \in Shapes(entity_log)
    /\ relationship_prompt_exc = "KeyError"

(***************************************************************************)
(* What the properties of the streaming upload endpoint speak of.          *)
(***************************************************************************)
HasProgress(e) == "progress" \in e.keys

HasError(e) == "error" \in e.keys

HasResult(e) == "result" \in e.keys

ErrorEvents == {n \in 1..Len(events) : HasError(events[n])}

\* The number of events of the longest run: lines 86, 93, 103, 108, 115, 130.
ProgressSteps == <<10, 20, 40, 50, 80, 100>>

\* How far the generator is.
GenAt ==
    CASE gen = "validate" -> 0 [] gen = "read" -> 1 [] gen = "extract" -> 2
      [] gen = "announce" -> 3 [] gen = "call" -> 4 [] gen = "processing" -> 5
      [] gen = "preview" -> 6 [] OTHER -> 7

\* How far the call of process_text_with_llm is.
PipelineAt ==
    CASE pc = "not_called" -> 0 [] pc = "extract_entities" -> 1
      [] pc \in {"entities_loop", "entities_direct"} -> 2
      [] pc = "extract_relationships" -> 3
      [] pc \in {"relationships_loop", "relationships_direct"} -> 4
      [] pc = "assemble" -> 5 [] OTHER -> 6

\* A measure every step raises; it stays below 8 * 1000.
Advance == GenAt * 1000 + PipelineAt * 100 + i

\* The generator has ended, or it or the call it waits for has a step to take.
NotStuck ==
    /\ i <= n_chunks + 1
    /\ Advance < 8 * 1000
    /\ gen # "raised"
    /\ gen = "processing"
       => pc \in {"extract_entities", "entities_loop", "entities_direct",
                  "extract_relationships", "relationships_loop", "relationships_direct",
                  "assemble", "done"}

EventsWellFormed ==
    /\ \A a \in 1..Len(events) :
          /\ HasProgress(events[a]) => events[a].progress \in 0..100
          /\ HasResult(events[a]) <=> (HasProgress(events[a]) /\ events[a].progress = 100)
          /\ HasResult(events[a]) => events[a].result # None
    /\ \A a, b \in 1..Len(events) :
          (a < b /\ HasProgress(events[a]) /\ HasProgress(events[b]))
          => events[a].progress < events[b].progress
    /\ (gen = "finished" /\ ErrorEvents = {})
       => /\ events # <<>>
          /\ HasResult(events[Len(events)])
          /\ events[Len(events)].progress = 100
          /\ [n \in 1..Len(events) |-> events[n].progress] = ProgressSteps

(***************************************************************************)
(* C11.  In every run of the streaming upload endpoint the progress values *)
(* of the progress events are strictly increasing and lie in 0..100; an    *)
(* event carries a result exactly when its progress is 100; and a run      *)
(* without an error event is finite, its last event being the one at 100   *)
(* that carries the result: every step advances a bounded measure, and a   *)
(* generator that has not ended has a step to take.                        *)
(***************************************************************************)
C11_ProgressIncreasesToResult ==
    /\ [](EventsWellFormed /\ NotStuck)
    /\ [][Advance' > Advance]_vars

\* A run without an error has ended, over a document of 9000 characters in
\* which people were found.
C11_Witness ==
    /\ gen = "finished"
    /\ ErrorEvents = {}
    /\ Len(events) = 6
    /\ text_len = 9000
    /\ Truthy(events[6].result.entities)
    /\ events[5].n = Len(events[6].result.entities.items)

\* The validation has failed: line 81 has been passed with a name that
\* validate_file_type rejects.
ValidationFailed == gen # "validate" /\ ~validate_file_type(filename)

\* extract_text_from_pdf has returned None.
ExtractionFailed ==
    \E n \in 1..Len(calls) : calls[n] = Call("extract_text_from_pdf", "None")

\* No completion has been asked for, and process_text_with_llm not called.
NoCompletionCall == pc = "not_called" /\ entity_log = <<>> /\ relationship_log = <<>>

(***************************************************************************)
(* C12.  In the streaming upload endpoint, once the validation of the file *)
(* type has failed or extract_text_from_pdf has returned None, exactly one *)
(* error event has been emitted, it is the last event and the generator    *)
(* has ended, so that no progress event, no result and no completion call  *)
(* follows it (none came before it either); after a failed validation the  *)
(* error event is the only event, and neither file.read nor                *)
(* extract_text_from_pdf has been called.                                  *)
(***************************************************************************)
C12_ErrorEventEndsRun ==
    /\ (ValidationFailed \/ ExtractionFailed)
       => /\ Cardinality(ErrorEvents) = 1
          /\ ErrorEvents = {Len(events)}
          /\ \A n \in 1..Len(events) : ~HasResult(events[n])
          /\ gen = "finished"
          /\ NoCompletionCall
    /\ ValidationFailed
       => /\ events = <<ErrorEvent("Only PDF files are supported")>>
          /\ calls = <<>>
    /\ ExtractionFailed
       => /\ events[Len(events)] = ErrorEvent("Failed to extract text from PDF")
          /\ calls = <<Call("file.read", "bytes"), Call("extract_text_from_pdf", "None")>>

\* The extraction has failed on a file named as a PDF in capitals: two
\* progress events, then the error event.
C12_Witness ==
    /\ ExtractionFailed
    /\ filename = "My.Book.PDF"
    /\ gen = "finished"
    /\ Len(events) = 3
    /\ HasProgress(events[1]) /\ HasProgress(events[2]) /\ HasError(events[3])

\* extract_relationships has been entered.
RelationshipsEntered ==
    pc \in {"relationships_loop", "relationships_direct", "assemble", "done"}

\* The passes in their order, and the record of the finished call.
PassesInOrder ==
    /\ (relationship_log # <<>> \/ RelationshipsEntered)
       => (EntitiesReturned /\ entities # None)
    /\ pc \in {"relationships_loop", "relationships_direct"} => Truthy(entities)
    /\ ~EntitiesReturned => (entities = None /\ relationships = None)
    /\ ~RelationshipsReturned => (relationships = None /\ result = None)
    /\ pc = "done"
       => /\ entities # None /\ relationships # None
          /\ result.entities = entities
          /\ result.relationships = relationships
          /\ result.text_length = text_len

\* What a step leaves alone: the entity pass asks for nothing once it has
\* returned, the values returned are not changed, nor is the text.
ReturnedValuesKept ==
    /\ text_len' = text_len
    /\ EntitiesReturned => (entities' = entities /\ entity_log' = entity_log)
    /\ RelationshipsReturned => relationships' = relationships
    /\ relationship_log' # relationship_log => EntitiesReturned

(***************************************************************************)
(* C13.  process_text_with_llm(text) ends the entity pass before the       *)
(* relationship pass begins or asks for a completion, the relationship     *)
(* pass works on the list the entity pass returned, and the record         *)
(* returned has that list as entities, the list the relationship pass      *)
(* returned as relationships and len(text) as text_length, whatever the    *)
(* completions were.                                                       *)
(***************************************************************************)
C13_PassesInOrderRecordAssembled ==
    /\ []PassesInOrder
    /\ [][ReturnedValuesKept]_vars

\* A call over a document of 9000 characters has returned, with entities
\* found over several completions, one of them unparseable.
C13_Witness ==
    /\ pc = "done"
    /\ gen = "no_generator"
    /\ text_len = 9000
    /\ result.text_length = 9000
    /\ Len(entity_log) >= 2
    /\ "unparseable" \in Shapes(entity_log)
    /\ Truthy(result.entities)
    /\ result.entities = entities

=============================================================================
